---- MODULE Spec2Model ----
(***************************************************************************)
(* k8s-watchdog: the detect -> track -> remediate loop of checkPods.       *)
(*                                                                         *)
(* Two builds of the program are in the repository: src/unnamed/part_000   *)
(* (shouldRestartPod + restartPod, "restart") and src/main.go              *)
(* (isStuckInContainerCreating + notifyAPI, "notify").  The variable       *)
(* `variant` says which build runs.  Time is in units of 100 ms.           *)
(***************************************************************************)
EXTENDS Integers, Sequences, FiniteSets, TLC

VARIABLES
    variant,          \* which build runs: "restart" (part_000) or "notify" (main.go)
    pendingTimeout,   \* package variable pendingTimeout
    checkInterval,    \* package variable checkInterval
    clock,            \* the wall clock, time.Now()
    pc,               \* where main is: "list", "range", "remediate", "idle"
    pods,             \* checkPods: pods.Items, the listing of this cycle
    i,                \* checkPods: how many items the range loop has taken
    now,              \* checkPods: now := time.Now()
    should,           \* checkPods: first result of the inspector for pods[i]
    reason,           \* checkPods: second result of the inspector for pods[i]
    podProblemTimes,  \* package variable podProblemTimes: name -> firstSeen
    logged,           \* the lines log.Printf wrote since this cycle began
    prevTimes,        \* history: podProblemTimes as this cycle found it
    tracked,          \* history: the open stuck episodes, name -> first seen
    since,            \* history: name -> the cycle that put its key in the map
    lastCall,         \* history: name -> the cycle of its last remediation call
    ticks,            \* main: the ticks waiting in the channel t.C (capacity 1)
    nextTick,         \* main: the time at which the ticker t fires next
    ctxDeadline,      \* checkPods: the deadline of ctx
    callStart,        \* the time at which the remediation call in flight began
    active,           \* the invocations of checkPods that have not returned
    config,           \* the environment and the package variables pendingTimeout
                      \* and checkInterval as time.Duration, <<>> until initialised
    twinTimes,        \* the other build, run side by side: its podProblemTimes
    twinPc,           \* the other build: where its main is
    twinLogged,       \* the other build: the lines it wrote since this cycle began
    agreed,           \* history: both inspectors gave the same answer so far
    missed            \* history: the names whose record was kept by a cycle
                      \* whose listing succeeded and did not hold the name

\* the ticker, the context and the calls in time
timing == <<ticks, nextTick, ctxDeadline, callStart, active>>

\* the other build run side by side
twin == <<twinTimes, twinPc, twinLogged, agreed>>

vars == <<variant, pendingTimeout, checkInterval, clock, pc, pods, i, now,
          should, reason, podProblemTimes, logged, prevTimes, tracked,
          since, lastCall, timing, config, twin, missed>>

----------------------------------------------------------------------------
(* Bounds of the model *)

\* number of checkPods cycles a behaviour runs
MaxCycles == 12

\* time between the creation of the pods (time 0) and the first cycle
StartOffset == 100

\* number of cycles a behaviour of Scenario A runs
ScenarioCycles == 22

\* number of cycles a behaviour that exercises the inspector runs
InspectCycles == 6

\* longest pod.Status.ContainerStatuses the inspector is exercised on
MaxContainers == 2

\* number of cycles a behaviour that notes the remediation calls runs
RetryCycles == 9

\* number of intervals after which a behaviour in time starts no cycle
TimedTicks == 5

\* number of cycles a behaviour of the two builds side by side runs
PairCycles == 5

\* number of cycles a behaviour that notes the listings without a name runs
EpisodeCycles == 6

(* Program constants *)

\* time.Second: the unit of time is 100 ms
Second == 10

\* time.Minute
Minute == 60 * Second

\* the fall-back of getPendingTimeout, in minutes
DefaultPendingMinutes == 5

\* the fall-back of getCheckInterval, in seconds (a count, not a time)
DefaultIntervalSeconds == 30

\* checkPods line 114: context.WithTimeout(context.Background(), 20*time.Second)
CycleTimeout == 20 * Second

\* main.go line 181: time.After(200 * time.Millisecond)
NotifyDelay == 2

----------------------------------------------------------------------------
(* Configuration.  A string is a sequence of one-character strings.         *)

Digits == <<"0", "1", "2", "3", "4", "5", "6", "7", "8", "9">>

IsDigit(c) == \E d \in 1..Len(Digits) : Digits[d] = c

DigitValue(c) == (CHOOSE d \in 1..Len(Digits) : Digits[d] = c) - 1

RECURSIVE ParseDigits(_, _)
\* the value of a non-empty all-digit string, <<>> when a character is no digit
ParseDigits(s, acc) ==
    IF s = <<>> THEN <<acc>>
    ELSE IF ~IsDigit(Head(s)) THEN <<>>
    ELSE ParseDigits(Tail(s), acc * 10 + DigitValue(Head(s)))

\* strconv.Atoi: <<n>> when s is an optional sign and one or more digits,
\* <<>> (err # nil) otherwise
Atoi(s) ==
    IF s = <<>> THEN <<>>
    ELSE IF Head(s) \in {"-", "+"}
         THEN IF Tail(s) = <<>> THEN <<>>
              ELSE LET r == ParseDigits(Tail(s), 0)
                   IN  IF r = <<>> THEN <<>>
                       ELSE IF Head(s) = "-" THEN <<0 - r[1]>> ELSE r
         ELSE ParseDigits(s, 0)

\* os.Getenv gives "" for an unset variable; getEnv puts the default there
getEnv(v, def) == IF v # <<>> THEN v ELSE def

\* the effective timeout
getPendingTimeout(v) ==
    LET mins == Atoi(getEnv(v, <<"5">>))
    IN  IF mins = <<>> \/ mins[1] <= 0
        THEN DefaultPendingMinutes * Minute
        ELSE mins[1] * Minute

\* the effective interval
getCheckInterval(v) ==
    LET secs == Atoi(getEnv(v, <<"3", "0">>))
    IN  IF secs = <<>> \/ secs[1] <= 0
        THEN DefaultIntervalSeconds * Second
        ELSE secs[1] * Second

\* values of PENDING_TIMEOUT the model runs with: unset, "abc", "1"
PendingTimeoutEnv == {<<>>, <<"a", "b", "c">>, <<"1">>}

\* values of CHECK_INTERVAL the model runs with: unset, "-5", "60"
CheckIntervalEnv == {<<>>, <<"-", "5">>, <<"6", "0">>}

----------------------------------------------------------------------------
(* The configuration at the width of the program.  int is 64 bits wide     *)
(* (GOARCH=amd64) and time.Duration is an int64 of nanoseconds: a number is *)
(* a sequence of digits in base 2^8, the least significant first; 8 digits  *)
(* are an int64 in two's complement, WideDigits digits hold every value the *)
(* inputs can denote.                                                       *)

Base == 2 ^ 8

\* the digits of an int64
Int64Digits == 64 \div 8

\* digits enough for the value of a string of 20 decimal digits times
\* time.Minute
WideDigits == 13

Zero(n) == [j \in 1..n |-> 0]

RECURSIVE MulAdd(_, _, _)
\* x * k + c, in as many digits as x has (the higher ones are lost)
MulAdd(x, k, c) ==
    IF x = <<>> THEN <<>>
    ELSE LET v == Head(x) * k + c
         IN  <<v % Base>> \o MulAdd(Tail(x), k, v \div Base)

IsZero(x) == \A j \in 1..Len(x) : x[j] = 0

\* the int64 x is negative: its sign bit is set
Negative(x) == x[Int64Digits] >= Base \div 2

\* the int64 that keeps the low 64 bits of x
Low64(x) == SubSeq(x, 1, Int64Digits)

\* x, a number of WideDigits digits, is at most 2^63 - 1
FitsInt64(x) ==
    /\ \A j \in Int64Digits + 1 .. Len(x) : x[j] = 0
    /\ x[Int64Digits] < Base \div 2

\* the value of the int64 x >= 0 in WideDigits digits
Widen(x) == x \o Zero(WideDigits - Int64Digits)

RECURSIVE ParseWide(_, _)
\* the value of the decimal digits s after acc, <<>> if s has another character
ParseWide(s, acc) ==
    IF s = <<>> THEN <<acc>>
    ELSE IF ~IsDigit(Head(s)) THEN <<>>
    ELSE ParseWide(Tail(s), MulAdd(acc, 10, DigitValue(Head(s))))

\* strconv.Atoi with a 64-bit int: err is set for a string that is not
\* [+-]digits and for a value out of the range of int; neg and mag are the
\* sign and the magnitude of the value
Atoi64(s) ==
    LET signed == s # <<>> /\ Head(s) \in {"-", "+"}
        digits == IF signed THEN Tail(s) ELSE s
        neg    == signed /\ Head(s) = "-"
        r      == IF digits = <<>> THEN <<>> ELSE ParseWide(digits, Zero(WideDigits))
    IN  IF r = <<>> THEN [err |-> TRUE, neg |-> FALSE, mag |-> Zero(WideDigits)]
        ELSE IF FitsInt64(r[1]) \/ (neg /\ FitsInt64(MulAdd(r[1], 1, -1)) /\ ~IsZero(r[1]))
             THEN [err |-> FALSE, neg |-> neg /\ ~IsZero(r[1]), mag |-> r[1]]
             ELSE [err |-> TRUE, neg |-> neg, mag |-> r[1]]

\* x * time.Minute (60 * 10^9 ns), in the digits of x
TimesMinute(x) == MulAdd(MulAdd(MulAdd(MulAdd(x, 60, 0), 1000, 0), 1000, 0), 1000, 0)

\* x * time.Second (10^9 ns), in the digits of x
TimesSecond(x) == MulAdd(MulAdd(MulAdd(x, 1000, 0), 1000, 0), 1000, 0)

\* the small number n as an int64
Int64(n) == MulAdd(Zero(Int64Digits), 1, n)

\* getPendingTimeout as a time.Duration: line 53 multiplies in int64
getPendingTimeout64(v) ==
    LET a == Atoi64(getEnv(v, <<"5">>))
    IN  IF a.err \/ a.neg \/ IsZero(a.mag)
        THEN TimesMinute(Int64(DefaultPendingMinutes))
        ELSE TimesMinute(Low64(a.mag))

\* getCheckInterval as a time.Duration: line 63 multiplies in int64
getCheckInterval64(v) ==
    LET a == Atoi64(getEnv(v, <<"3", "0">>))
    IN  IF a.err \/ a.neg \/ IsZero(a.mag)
        THEN TimesSecond(Int64(DefaultIntervalSeconds))
        ELSE TimesSecond(Low64(a.mag))

\* values of PENDING_TIMEOUT the configuration is run on
PendingTimeoutInputs ==
    { <<>>,
      <<"a", "b", "c">>,
      <<"0">>,
      <<"-", "5">>,
      <<"+", "7">>,
      <<"1">>,
      <<"5">>,
      <<"1", "5", "3", "7", "2", "2", "8", "6", "7">>,
      <<"1", "5", "3", "7", "2", "2", "8", "6", "8">>,
      <<"9", "0", "0", "7", "1", "9", "9", "2", "5", "4", "7", "4", "0", "9", "9", "2">>,
      <<"9", "2", "2", "3", "3", "7", "2", "0", "3", "6", "8", "5", "4", "7", "7", "5", "8", "0", "7">>,
      <<"9", "2", "2", "3", "3", "7", "2", "0", "3", "6", "8", "5", "4", "7", "7", "5", "8", "0", "8">> }

\* values of CHECK_INTERVAL the configuration is run on
CheckIntervalInputs ==
    { <<>>,
      <<"a", "b", "c">>,
      <<"-", "5">>,
      <<"0">>,
      <<"3", "0">>,
      <<"6", "0">>,
      <<"9", "2", "2", "3", "3", "7", "2", "0", "3", "6">>,
      <<"9", "2", "2", "3", "3", "7", "2", "0", "3", "7">>,
      <<"3", "6", "0", "2", "8", "7", "9", "7", "0", "1", "8", "9", "6", "3", "9", "6", "8">>,
      <<"9", "2", "2", "3", "3", "7", "2", "0", "3", "6", "8", "5", "4", "7", "7", "5", "8", "0", "7">>,
      <<"1", "8", "4", "4", "6", "7", "4", "4", "0", "7", "3", "7", "0", "9", "5", "5", "1", "6", "1", "6">> }

----------------------------------------------------------------------------
(* Entity snapshots (corev1.Pod as the program reads it) *)

Names == {"p1", "p2"}

Phases == {"Pending", "Running", "Succeeded", "Failed", "Unknown"}

\* cs.State.Waiting / cs.State.Running are pointers: <<>> is nil
Waiting(r) == [Waiting |-> <<r>>, Running |-> <<>>, Ready |-> FALSE]

Running(startedAt, ready) ==
    [Waiting |-> <<>>, Running |-> <<startedAt>>, Ready |-> ready]

Terminated == [Waiting |-> <<>>, Running |-> <<>>, Ready |-> FALSE]

Pod(name, phase, created, css) ==
    [Name |-> name, Phase |-> phase, CreationTimestamp |-> created,
     ContainerStatuses |-> css]

----------------------------------------------------------------------------
(* The inspector.  t is the reading of the clock that time.Since takes.     *)

\* part_000: reasonsToWatch[r]
reasonsToWatch(r) ==
    r \in {"ContainerCreating", "ErrImagePull", "ImagePullBackOff",
           "CrashLoopBackOff", "CreateContainerConfigError"}

RECURSIVE ScanContainers_LastMatch(_, _, _, _)
\* a slip in lines 178-197: the loop does not return at the first match, the
\* last matching container decides
ScanContainers_LastMatch(css, created, timeout, t) ==
    IF css = <<>> THEN <<FALSE, "">>
    ELSE LET cs   == Head(css)
             rest == ScanContainers_LastMatch(Tail(css), created, timeout, t)
         IN  IF rest[1] THEN rest
             ELSE IF /\ cs.Waiting # <<>>
                     /\ reasonsToWatch(cs.Waiting[1])
                     /\ t - created > timeout
                  THEN <<TRUE, cs.Waiting[1]>>
                  ELSE IF /\ cs.Running # <<>>
                          /\ ~cs.Ready
                          /\ t - cs.Running[1] > timeout
                       THEN <<TRUE, "RunningNotReady">>
                       ELSE <<FALSE, "">>

RECURSIVE ScanContainers(_, _, _, _)
\* part_000: the range loop of shouldRestartPod over pod.Status.ContainerStatuses
ScanContainers(css, created, timeout, t) ==
    IF css = <<>> THEN <<FALSE, "">>
    ELSE LET cs == Head(css)
         IN  IF /\ cs.Waiting # <<>>
                /\ reasonsToWatch(cs.Waiting[1])
                /\ t - created > timeout
             THEN <<TRUE, cs.Waiting[1]>>
             ELSE IF /\ cs.Running # <<>>
                     /\ ~cs.Ready
                     /\ t - cs.Running[1] > timeout
                  THEN <<TRUE, "RunningNotReady">>
                  ELSE ScanContainers(Tail(css), created, timeout, t)

\* a slip in lines 162-168: the phase switch is missing
shouldRestartPod_NoPhaseSwitch(pod, timeout, t) ==
    ScanContainers(pod.ContainerStatuses, pod.CreationTimestamp, timeout, t)

\* part_000: shouldRestartPod
shouldRestartPod(pod, timeout, t) ==
    IF pod.Phase \in {"Pending", "Running"}
    THEN ScanContainers(pod.ContainerStatuses, pod.CreationTimestamp, timeout, t)
    ELSE <<FALSE, "">>

RECURSIVE isStuckInContainerCreating(_, _, _)
\* main.go: isStuckInContainerCreating (no phase switch, one waiting reason)
isStuckInContainerCreating(pod, timeout, t) ==
    IF pod.ContainerStatuses = <<>> THEN <<FALSE, "">>
    ELSE LET cs == Head(pod.ContainerStatuses)
         IN  IF /\ cs.Waiting # <<>>
                /\ cs.Waiting[1] = "ContainerCreating"
                /\ t - pod.CreationTimestamp > timeout
             THEN <<TRUE, "ContainerCreating">>
             ELSE isStuckInContainerCreating(
                      [pod EXCEPT !.ContainerStatuses = Tail(@)], timeout, t)

\* a slip: the inspector consults the tracker and passes over a pod that
\* already has a record
Inspect_SkipsTracked(pod, timeout, t) ==
    IF pod.Name \in DOMAIN podProblemTimes THEN <<FALSE, "">>
    ELSE IF variant = "restart"
         THEN shouldRestartPod(pod, timeout, t)
         ELSE isStuckInContainerCreating(pod, timeout, t)

\* the call at line 130 of checkPods, in the build that runs
Inspect(pod, timeout, t) ==
    IF variant = "restart"
    THEN shouldRestartPod(pod, timeout, t)
    ELSE isStuckInContainerCreating(pod, timeout, t)

----------------------------------------------------------------------------
(* The listing.  Pods of the watched namespace: all were created at time 0, *)
(* and a running container started at time 0.                               *)

PodShapes ==
    { <<"Pending",   <<Waiting("ImagePullBackOff")>> >>,
      <<"Pending",   <<Waiting("ContainerCreating")>> >>,
      <<"Pending",   <<Waiting("PodInitializing")>> >>,
      <<"Running",   <<Running(0, TRUE)>> >>,
      <<"Running",   <<Running(0, FALSE)>> >>,
      <<"Succeeded", <<Waiting("ContainerCreating")>> >> }

ClusterPods == { Pod(n, sh[1], 0, sh[2]) : n \in Names, sh \in PodShapes }

\* what List can return: names are unique within the one namespace listed
Listings ==
    {<<>>}
    \cup { <<p>> : p \in ClusterPods }
    \cup { pq \in ClusterPods \X ClusterPods : pq[1].Name # pq[2].Name }

----------------------------------------------------------------------------
(* podProblemTimes: a Go map, here a function on the names that have a key *)

EmptyMap == [n \in {} |-> 0]

MapPut(m, k, v) == [n \in DOMAIN m \cup {k} |-> IF n = k THEN v ELSE m[n]]

MapDelete(m, k) == [n \in DOMAIN m \ {k} |-> m[n]]

\* what restartPod / notifyAPI can return
RemediationErrors ==
    IF variant = "restart" THEN {"nil", "api error", "deadline exceeded"}
    ELSE {"nil", "deadline exceeded"}

\* a line of the log: the message, the pod it names, the error it prints
Line(msg, name, e) == [msg |-> msg, pod |-> name, err |-> e]

----------------------------------------------------------------------------
(* History: the stuck episodes as the classifications alone define them.   *)
(* An episode of a name opens when it is classified stuck with no episode  *)
(* open, and closes when it is classified not stuck or when it is          *)
(* classified stuck at a time t with t - first seen >= timeout.            *)

Episodes(tr, name, stuck, t, timeout) ==
    IF ~stuck THEN MapDelete(tr, name)
    ELSE IF name \notin DOMAIN tr THEN MapPut(tr, name, t)
    ELSE IF t - tr[name] >= timeout THEN MapDelete(tr, name)
    ELSE tr

----------------------------------------------------------------------------
(* main and checkPods *)

\* the specifications that run main take the durations in units of time
NoConfig ==
    [PENDING_TIMEOUT |-> <<>>, CHECK_INTERVAL |-> <<>>,
     pendingTimeout |-> <<>>, checkInterval |-> <<>>]

\* the program started with PENDING_TIMEOUT in pts and CHECK_INTERVAL in cis:
\* the package variables are initialised, main has made the ticker and is
\* about to call checkPods for the first time
InitEnv(pts, cis) ==
    /\ variant \in {"restart", "notify"}
    /\ pendingTimeout \in { getPendingTimeout(v) : v \in pts }
    /\ checkInterval \in { getCheckInterval(v) : v \in cis }
    /\ clock = StartOffset
    /\ pc = "list"
    /\ pods = <<>>
    /\ i = 0
    /\ now = 0
    /\ should = FALSE
    /\ reason = ""
    /\ podProblemTimes = EmptyMap
    /\ logged = <<>>
    /\ prevTimes = EmptyMap
    /\ tracked = EmptyMap
    /\ since = EmptyMap
    /\ lastCall = EmptyMap
    /\ ticks = 0
    /\ nextTick = clock + checkInterval
    /\ ctxDeadline = clock + CycleTimeout
    /\ callStart = clock
    /\ active = 1
    /\ config = NoConfig
    /\ twinTimes = EmptyMap
    /\ twinPc = "list"
    /\ twinLogged = <<>>
    /\ agreed = TRUE
    /\ missed = {}

Init == InitEnv(PendingTimeoutEnv, CheckIntervalEnv)

\* where the range loop goes after item k: the next item, or checkPods
\* returns and main waits on the ticker
AfterItem(k) == IF k < Len(pods) THEN "range" ELSE "idle"

\* a slip in line 135: > where the code has >=
ThresholdReached_Strict(firstSeen) == now - firstSeen > pendingTimeout

\* checkPods line 135: else if now.Sub(firstSeen) >= pendingTimeout
ThresholdReached(firstSeen) == now - firstSeen >= pendingTimeout

\* checkPods line 133: podProblemTimes[pod.Name] = now
StartTimer(m, name) == MapPut(m, name, now)

\* a slip in line 155: the record of a recovered pod is left in the map
ClearRecovered_Never(m, name) == m

\* checkPods line 155: the pod is not stuck, delete(podProblemTimes, pod.Name)
ClearRecovered(m, name) == MapDelete(m, name)

\* a slip in line 152: the record is deleted only when the call succeeded
ClearRemediated_OnSuccessOnly(m, name, e) ==
    IF e = "nil" THEN MapDelete(m, name) ELSE m

\* checkPods line 152: after the remediation call returned e,
\* delete(podProblemTimes, pod.Name)
ClearRemediated(m, name, e) == MapDelete(m, name)

\* main: <-t.C, then checkPods is called again and calls List; a behaviour
\* runs `cycles` cycles
TickWithin(cycles) ==
    /\ pc = "idle"
    /\ clock + checkInterval <= StartOffset + (cycles - 1) * checkInterval
    /\ clock' = clock + checkInterval
    /\ pc' = "list"
    /\ pods' = <<>>
    /\ i' = 0
    /\ should' = FALSE
    /\ reason' = ""
    /\ logged' = <<>>
    /\ prevTimes' = podProblemTimes
    /\ UNCHANGED <<variant, pendingTimeout, checkInterval, now,
                   podProblemTimes, tracked>>

\* a slip in lines 123-126: a failed listing resets the timers
ListFail_ResetsTimers ==
    /\ pc = "list"
    /\ logged' = Append(logged, Line("list pods error", "", "list error"))
    /\ podProblemTimes' = EmptyMap
    /\ pc' = "idle"
    /\ UNCHANGED <<variant, pendingTimeout, checkInterval, clock, pods, i, now,
                   should, reason, prevTimes, tracked>>

Tick == TickWithin(MaxCycles)

\* log.Fatalf in the place of log.Printf at line 124: the program exits
ListFail_Fatal ==
    /\ pc = "list"
    /\ logged' = Append(logged, Line("list pods error", "", "list error"))
    /\ pc' = "exited"
    /\ UNCHANGED <<variant, pendingTimeout, checkInterval, clock, pods, i, now,
                   should, reason, podProblemTimes, prevTimes, tracked>>

\* checkPods: List returns an error; log and return
ListFail ==
    /\ pc = "list"
    /\ logged' = Append(logged, Line("list pods error", "", "list error"))
    /\ pc' = "idle"
    /\ UNCHANGED <<variant, pendingTimeout, checkInterval, clock, pods, i, now,
                   should, reason, podProblemTimes, prevTimes, tracked>>

\* checkPods: List returns the items l; now := time.Now()
ListOK(l) ==
    /\ pc = "list"
    /\ pods' = l
    /\ now' = clock
    /\ pc' = IF l = <<>> THEN "idle" ELSE "range"
    /\ UNCHANGED <<variant, pendingTimeout, checkInterval, clock, i,
                   should, reason, podProblemTimes, logged, prevTimes, tracked>>

\* a slip in lines 136-152: delete(podProblemTimes, pod.Name) stands before
\* the remediation call
ProcessPod_DeletesBeforeCall ==
    /\ pc = "range"
    /\ LET pod == pods[i + 1]
           res == Inspect(pod, pendingTimeout, clock)
       IN  /\ i' = i + 1
           /\ should' = res[1]
           /\ reason' = res[2]
           /\ tracked' = Episodes(tracked, pod.Name, res[1], now, pendingTimeout)
           /\ IF res[1]
              THEN IF pod.Name \notin DOMAIN podProblemTimes
                   THEN /\ podProblemTimes' = StartTimer(podProblemTimes, pod.Name)
                        /\ logged' = Append(logged,
                                         Line("Problem detected", pod.Name, "nil"))
                        /\ pc' = AfterItem(i + 1)
                   ELSE IF ThresholdReached(podProblemTimes[pod.Name])
                        THEN /\ logged' = Append(logged,
                                         Line("Restarting pod", pod.Name, "nil"))
                             /\ pc' = "remediate"
                             /\ podProblemTimes' = MapDelete(podProblemTimes, pod.Name)
                        ELSE /\ pc' = AfterItem(i + 1)
                             /\ UNCHANGED <<podProblemTimes, logged>>
              ELSE /\ podProblemTimes' = ClearRecovered(podProblemTimes, pod.Name)
                   /\ pc' = AfterItem(i + 1)
                   /\ UNCHANGED logged
    /\ UNCHANGED <<variant, pendingTimeout, checkInterval, clock, pods, now,
                   prevTimes>>

\* checkPods: one pass of the range loop body, up to the remediation call
ProcessPod ==
    /\ pc = "range"
    /\ LET pod == pods[i + 1]
           res == Inspect(pod, pendingTimeout, clock)
       IN  /\ i' = i + 1
           /\ should' = res[1]
           /\ reason' = res[2]
           /\ tracked' = Episodes(tracked, pod.Name, res[1], now, pendingTimeout)
           /\ IF res[1]
              THEN IF pod.Name \notin DOMAIN podProblemTimes
                   THEN /\ podProblemTimes' = StartTimer(podProblemTimes, pod.Name)
                        /\ logged' = Append(logged,
                                         Line("Problem detected", pod.Name, "nil"))
                        /\ pc' = AfterItem(i + 1)
                   ELSE IF ThresholdReached(podProblemTimes[pod.Name])
                        THEN /\ logged' = Append(logged,
                                         Line("Restarting pod", pod.Name, "nil"))
                             /\ pc' = "remediate"
                             /\ UNCHANGED podProblemTimes
                        ELSE /\ pc' = AfterItem(i + 1)
                             /\ UNCHANGED <<podProblemTimes, logged>>
              ELSE /\ podProblemTimes' = ClearRecovered(podProblemTimes, pod.Name)
                   /\ pc' = AfterItem(i + 1)
                   /\ UNCHANGED logged
    /\ UNCHANGED <<variant, pendingTimeout, checkInterval, clock, pods, now,
                   prevTimes>>

\* checkPods: restartPod / notifyAPI returns e; log, then delete the record
RemediateReturn(e) ==
    /\ pc = "remediate"
    /\ logged' = Append(logged,
                    Line(IF e = "nil" THEN "remediation OK" ELSE "remediation error",
                         pods[i].Name, e))
    /\ podProblemTimes' = ClearRemediated(podProblemTimes, pods[i].Name, e)
    /\ pc' = AfterItem(i)
    /\ UNCHANGED <<variant, pendingTimeout, checkInterval, clock, pods, i, now,
                   should, reason, prevTimes, tracked>>

\* history of the step: a key that appears in podProblemTimes is dated with
\* the time of its cycle (the StartedTracking event), a key that stays keeps
\* its date
ObserveKeys ==
    since' = [e \in DOMAIN podProblemTimes' |->
                IF e \in DOMAIN podProblemTimes THEN since[e] ELSE now']

\* history of the step: a remediation call that returns is noted with the
\* time of its cycle and the error it returned (as line 148 / 150 logs it)
ObserveCalls ==
    lastCall' = IF pc = "remediate" /\ pc' # "remediate"
                THEN MapPut(lastCall, pods[i].Name,
                            [at |-> now, err |-> logged'[Len(logged')].err])
                ELSE lastCall

\* the history that every specification keeps; the specifications that
\* take a cycle to last no time leave the ticker and the context aside
Observe == ObserveKeys /\ UNCHANGED <<lastCall, timing, config, twin, missed>>

Next ==
    \/ Tick /\ Observe
    \/ ListFail /\ Observe
    \/ pc = "list" /\ (\E l \in Listings : ListOK(l)) /\ Observe
    \/ ProcessPod /\ Observe
    \/ pc = "remediate" /\ (\E e \in RemediationErrors : RemediateReturn(e))
          /\ Observe

Spec == Init /\ [][Next]_vars

----------------------------------------------------------------------------
(* The initialisation of the package variables pendingTimeout (line 33) and *)
(* checkInterval (line 34) from the environment, at the width of the program *)

InitConfig ==
    /\ InitEnv({<<>>}, {<<>>})
    /\ variant = "restart"

\* the environment the program is started in
SetEnv ==
    /\ config = NoConfig
    /\ \E pt \in PendingTimeoutInputs, ci \in CheckIntervalInputs :
          config' = [NoConfig EXCEPT !.PENDING_TIMEOUT = <<pt>>,
                                     !.CHECK_INTERVAL = <<ci>>]

\* line 33: pendingTimeout = getPendingTimeout()
InitPendingTimeout ==
    /\ config.PENDING_TIMEOUT # <<>>
    /\ config.pendingTimeout = <<>>
    /\ config' = [config EXCEPT
                    !.pendingTimeout = <<getPendingTimeout64(config.PENDING_TIMEOUT[1])>>]

\* line 34: checkInterval = getCheckInterval()
InitCheckInterval ==
    /\ config.pendingTimeout # <<>>
    /\ config.checkInterval = <<>>
    /\ config' = [config EXCEPT
                    !.checkInterval = <<getCheckInterval64(config.CHECK_INTERVAL[1])>>]

NextConfig ==
    \/ SetEnv /\ UNCHANGED <<variant, pendingTimeout, checkInterval, clock, pc, pods, i, now,
          should, reason, podProblemTimes, logged, prevTimes, tracked,
          since, lastCall, timing, twin, missed>>
    \/ InitPendingTimeout /\ UNCHANGED <<variant, pendingTimeout, checkInterval, clock, pc, pods, i, now,
          should, reason, podProblemTimes, logged, prevTimes, tracked,
          since, lastCall, timing, twin, missed>>
    \/ InitCheckInterval /\ UNCHANGED <<variant, pendingTimeout, checkInterval, clock, pc, pods, i, now,
          should, reason, podProblemTimes, logged, prevTimes, tracked,
          since, lastCall, timing, twin, missed>>

SpecConfig == InitConfig /\ [][NextConfig]_vars

----------------------------------------------------------------------------
(* Scenario A: the part_000 build with PENDING_TIMEOUT=5, CHECK_INTERVAL=30; *)
(* every listing succeeds and returns p1, created at time 0, Pending, its    *)
(* container Waiting with reason ImagePullBackOff (and perhaps a second pod) *)

ScenarioPod == Pod("p1", "Pending", 0, <<Waiting("ImagePullBackOff")>>)

ScenarioListings == { l \in Listings : \E k \in 1..Len(l) : l[k] = ScenarioPod }

InitScenarioA ==
    /\ Init
    /\ variant = "restart"
    /\ pendingTimeout = getPendingTimeout(<<"5">>)
    /\ checkInterval = getCheckInterval(<<"3", "0">>)

NextScenarioA ==
    \/ TickWithin(ScenarioCycles) /\ Observe
    \/ pc = "list" /\ (\E l \in ScenarioListings : ListOK(l)) /\ Observe
    \/ ProcessPod /\ Observe
    \/ pc = "remediate" /\ (\E e \in RemediationErrors : RemediateReturn(e))
          /\ Observe

SpecScenarioA == InitScenarioA /\ [][NextScenarioA]_vars

----------------------------------------------------------------------------
(* Repeated remediation: PENDING_TIMEOUT=1, the pods are stuck creating a *)
(* container or run ready, and the calls are noted                        *)

RetryListings ==
    { l \in Listings :
        \A k \in 1..Len(l) :
            l[k].ContainerStatuses \in
                { <<Waiting("ContainerCreating")>>, <<Running(0, TRUE)>> } }

InitRetry ==
    /\ Init
    /\ pendingTimeout = getPendingTimeout(<<"1">>)

\* the history with the calls noted
ObserveRetry == ObserveKeys /\ ObserveCalls /\ UNCHANGED <<timing, config, twin, missed>>

NextRetry ==
    \/ TickWithin(RetryCycles) /\ ObserveRetry
    \/ ListFail /\ ObserveRetry
    \/ pc = "list" /\ (\E l \in RetryListings : ListOK(l)) /\ ObserveRetry
    \/ ProcessPod /\ ObserveRetry
    \/ pc = "remediate" /\ (\E e \in RemediationErrors : RemediateReturn(e))
          /\ ObserveRetry

SpecRetry == InitRetry /\ [][NextRetry]_vars

----------------------------------------------------------------------------
(* The loop in time.  The ticker fires every checkInterval whatever main    *)
(* does and t.C holds one tick; List and the remediation calls take time    *)
(* and are bound by ctx; the loop body itself takes none.                   *)
(* PENDING_TIMEOUT=1, CHECK_INTERVAL=15; the pods were created a minute     *)
(* before the program started: p1 and p2 create a container, or p1 runs.    *)

TimedPods ==
    { Pod(n, "Pending", 0 - Minute, <<Waiting("ContainerCreating")>>) : n \in Names }
    \cup { Pod("p1", "Running", 0 - Minute, <<Running(0 - Minute, TRUE)>>) }

TimedListings ==
    {<<>>}
    \cup { <<p>> : p \in TimedPods }
    \cup { pq \in TimedPods \X TimedPods : pq[1].Name # pq[2].Name }

InitTimed == InitEnv({<<"1">>}, {<<"1", "5">>})

\* the instants at which the ticker, the context or a timer can end a wait
Instants ==
    {nextTick, ctxDeadline, ctxDeadline - 1, callStart + NotifyDelay}

\* how long main can stay where it is: on <-t.C until a tick is there, in
\* List or Delete until ctx is done, in notifyAPI until the timer fires or
\* ctx is done; the loop body takes no time
BlockedUntil ==
    CASE pc = "idle" -> IF ticks = 0 THEN nextTick ELSE clock
      [] pc = "list" -> ctxDeadline
      [] pc = "remediate" ->
             IF variant = "notify" /\ callStart + NotifyDelay < ctxDeadline
             THEN callStart + NotifyDelay
             ELSE ctxDeadline
      [] OTHER -> clock

\* time passes to the instant t while main is blocked; the ticker fires at
\* nextTick, and a tick that finds t.C full is dropped
Elapse(t) ==
    /\ clock < t
    /\ t <= BlockedUntil
    /\ t <= nextTick
    /\ t <= StartOffset + TimedTicks * checkInterval + CycleTimeout
    /\ clock' = t
    /\ IF t = nextTick
       THEN ticks' = 1 /\ nextTick' = nextTick + checkInterval
       ELSE UNCHANGED <<ticks, nextTick>>
    /\ UNCHANGED <<variant, pendingTimeout, checkInterval, pc, pods, i, now,
                   should, reason, podProblemTimes, logged, prevTimes, tracked,
                   ctxDeadline, callStart, active>>

\* main with `go checkPods(clientset)` in the loop: a tick starts a cycle
\* whether or not the last one has returned
TickReceived_Concurrent ==
    /\ ticks > 0
    /\ clock <= StartOffset + TimedTicks * checkInterval
    /\ ticks' = ticks - 1
    /\ active' = active + 1
    /\ ctxDeadline' = clock + CycleTimeout
    /\ pc' = "list"
    /\ pods' = <<>>
    /\ i' = 0
    /\ should' = FALSE
    /\ reason' = ""
    /\ logged' = <<>>
    /\ prevTimes' = podProblemTimes
    /\ UNCHANGED <<variant, pendingTimeout, checkInterval, clock, now,
                   podProblemTimes, tracked, nextTick, callStart>>

\* main lines 107-110: checkPods has returned, <-t.C takes a tick, and
\* checkPods is called again and makes its ctx (line 114)
TickReceived ==
    /\ pc = "idle"
    /\ ticks > 0
    /\ clock <= StartOffset + TimedTicks * checkInterval
    /\ ticks' = ticks - 1
    /\ active' = active + 1
    /\ ctxDeadline' = clock + CycleTimeout
    /\ pc' = "list"
    /\ pods' = <<>>
    /\ i' = 0
    /\ should' = FALSE
    /\ reason' = ""
    /\ logged' = <<>>
    /\ prevTimes' = podProblemTimes
    /\ UNCHANGED <<variant, pendingTimeout, checkInterval, clock, now,
                   podProblemTimes, tracked, nextTick, callStart>>

\* what the step of checkPods does to the calls: a remediation call that
\* begins is dated, an invocation that returns is no longer active
InCycle ==
    /\ callStart' = IF pc # "remediate" /\ pc' = "remediate"
                    THEN clock ELSE callStart
    /\ active' = IF pc # "idle" /\ pc' = "idle" THEN active - 1 ELSE active
    /\ UNCHANGED <<ticks, nextTick, ctxDeadline>>
    /\ ObserveKeys
    /\ UNCHANGED <<lastCall, config, twin, missed>>

\* List answers only while ctx is not done
ListCanReturn == clock < ctxDeadline

\* a remediation call that does not look at ctx: it returns any of its
\* results at any time
CallCanReturn_WithoutContext(e) == TRUE

\* restartPod (Delete with ctx) fails with the deadline error when ctx is
\* done and answers otherwise; notifyAPI (main.go lines 180-185) returns
\* nil when its timer has fired and ctx.Err() when ctx is done
CallCanReturn(e) ==
    IF e = "deadline exceeded" THEN clock >= ctxDeadline
    ELSE IF variant = "notify" THEN clock >= callStart + NotifyDelay
    ELSE clock < ctxDeadline

NextTimed ==
    \/ TickReceived /\ UNCHANGED <<since, lastCall, config, twin, missed>>
    \/ (\E t \in Instants : Elapse(t)) /\ UNCHANGED <<since, lastCall, config, twin, missed>>
    \/ ListFail /\ InCycle
    \/ pc = "list" /\ ListCanReturn
          /\ (\E l \in TimedListings : ListOK(l)) /\ InCycle
    \/ ProcessPod /\ InCycle
    \/ pc = "remediate"
          /\ (\E e \in RemediationErrors : CallCanReturn(e) /\ RemediateReturn(e))
          /\ InCycle

SpecTimed == InitTimed /\ [][NextTimed]_vars

----------------------------------------------------------------------------
(* The loop without end.  The program reads times only through differences *)
(* (lines 135, 182, 191), so time is measured from the present cycle: a     *)
(* tick moves every time the state holds one interval into the past, and    *)
(* pasts that the comparisons with the timeout do not tell apart are one.   *)
(* PENDING_TIMEOUT=1, CHECK_INTERVAL unset; List, the range loop and the    *)
(* remediation calls return (ctx bounds the calls) and the ticker fires.    *)

\* the oldest age the records are told apart by
LiveOldest == pendingTimeout + checkInterval

\* the time t, one interval later
Past(t) ==
    IF t - checkInterval < clock - LiveOldest
    THEN clock - LiveOldest
    ELSE t - checkInterval

PastMap(m) == [e \in DOMAIN m |-> Past(m[e])]

\* the time of a call, one interval later: a call is older than the key
\* that was put in the map after it
PastCall(t) ==
    IF t - checkInterval < clock - LiveOldest - checkInterval
    THEN clock - LiveOldest - checkInterval
    ELSE t - checkInterval

\* the pods List can return: creating a container since one interval or
\* since more than the timeout, or running and ready
LivePods ==
    { Pod(n, "Pending", clock - a, <<Waiting("ContainerCreating")>>) :
        n \in Names, a \in {checkInterval, LiveOldest} }
    \cup { Pod(n, "Running", clock - LiveOldest, <<Running(clock - LiveOldest, TRUE)>>) :
             n \in Names }

LiveListings ==
    {<<>>}
    \cup { <<p>> : p \in LivePods }
    \cup { pq \in LivePods \X LivePods : pq[1].Name # pq[2].Name }

InitLive == InitEnv({<<"1">>}, {<<>>})

\* main: <-t.C, then checkPods is called again; one interval has passed
TickAgain ==
    /\ pc = "idle"
    /\ pc' = "list"
    /\ pods' = <<>>
    /\ i' = 0
    /\ should' = FALSE
    /\ reason' = ""
    /\ logged' = <<>>
    /\ now' = Past(now)
    /\ podProblemTimes' = PastMap(podProblemTimes)
    /\ prevTimes' = PastMap(podProblemTimes)
    /\ tracked' = PastMap(tracked)
    /\ since' = PastMap(since)
    /\ lastCall' = [e \in DOMAIN lastCall |->
                      [lastCall[e] EXCEPT !.at = PastCall(@)]]
    /\ UNCHANGED <<variant, pendingTimeout, checkInterval, clock, timing, config, twin, missed>>

ListReturns ==
    \/ ListFail /\ ObserveRetry
    \/ pc = "list" /\ (\E l \in LiveListings : ListOK(l)) /\ ObserveRetry

CallReturns ==
    pc = "remediate" /\ (\E e \in RemediationErrors : RemediateReturn(e))
        /\ ObserveRetry

NextLive ==
    \/ TickAgain
    \/ ListReturns
    \/ ProcessPod /\ ObserveRetry
    \/ CallReturns

SpecLive ==
    /\ InitLive
    /\ [][NextLive]_vars
    /\ WF_vars(TickAgain)
    /\ WF_vars(ListReturns)
    /\ WF_vars(ProcessPod /\ ObserveRetry)
    /\ WF_vars(CallReturns)

----------------------------------------------------------------------------
(* Entities that leave the listing: PENDING_TIMEOUT=1, every listing of    *)
(* Listings, and the records that a successful listing passed over noted.  *)

\* history of the step: a name is noted when List succeeded without it while
\* it has a record, until its record is deleted
ObserveMissed ==
    missed' =
        LET kept == missed \cap DOMAIN podProblemTimes \cap DOMAIN podProblemTimes'
        IN  IF pc = "list" /\ pc' # "list" /\ logged' = logged
            THEN kept \cup { e \in DOMAIN podProblemTimes' :
                               \A k \in 1..Len(pods') : pods'[k].Name # e }
            ELSE kept

ObserveEpisode ==
    ObserveKeys /\ ObserveMissed /\ UNCHANGED <<lastCall, timing, config, twin>>

InitEpisode ==
    /\ Init
    /\ pendingTimeout = getPendingTimeout(<<"1">>)

NextEpisode ==
    \/ TickWithin(EpisodeCycles) /\ ObserveEpisode
    \/ ListFail /\ ObserveEpisode
    \/ pc = "list" /\ (\E l \in Listings : ListOK(l)) /\ ObserveEpisode
    \/ ProcessPod /\ ObserveEpisode
    \/ pc = "remediate" /\ (\E e \in RemediationErrors : RemediateReturn(e))
          /\ ObserveEpisode

SpecEpisode == InitEpisode /\ [][NextEpisode]_vars

----------------------------------------------------------------------------
(* The two builds side by side.  `variant` runs as above; the other build   *)
(* runs its own checkPods on its own podProblemTimes, with its own          *)
(* inspector and its own remediation call.  Both are given the same result  *)
(* of List and the same now in every cycle, with PENDING_TIMEOUT=1; the     *)
(* two remediation calls return independently of each other.                *)

\* the inspector of the other build
TwinInspect(pod, timeout, t) ==
    IF variant = "restart"
    THEN isStuckInContainerCreating(pod, timeout, t)
    ELSE shouldRestartPod(pod, timeout, t)

\* what the remediation call of the other build can return
TwinErrors ==
    IF variant = "restart" THEN {"nil", "deadline exceeded"}
    ELSE {"nil", "api error", "deadline exceeded"}

InitPair ==
    /\ Init
    /\ pendingTimeout = getPendingTimeout(<<"1">>)

\* main of both builds: <-t.C, checkPods is called again
PairTick ==
    /\ twinPc = "idle"
    /\ TickWithin(PairCycles)
    /\ twinPc' = "list"
    /\ twinLogged' = <<>>
    /\ UNCHANGED <<twinTimes, agreed>>

\* List fails in both builds
PairListFail ==
    /\ twinPc = "list"
    /\ ListFail
    /\ twinLogged' = Append(twinLogged, Line("list pods error", "", "list error"))
    /\ twinPc' = "idle"
    /\ UNCHANGED <<twinTimes, agreed>>

\* List returns the items l to both builds
PairListOK(l) ==
    /\ twinPc = "list"
    /\ ListOK(l)
    /\ twinPc' = IF l = <<>> THEN "idle" ELSE "range"
    /\ UNCHANGED <<twinTimes, twinLogged, agreed>>

\* checkPods of the other build: one pass of the range loop body, up to the
\* remediation call
TwinProcessPod ==
    /\ twinPc = "range"
    /\ LET pod == pods[i + 1]
           res == TwinInspect(pod, pendingTimeout, clock)
       IN  /\ agreed' = (agreed /\ res[1] = Inspect(pod, pendingTimeout, clock)[1])
           /\ IF res[1]
              THEN IF pod.Name \notin DOMAIN twinTimes
                   THEN /\ twinTimes' = StartTimer(twinTimes, pod.Name)
                        /\ twinLogged' = Append(twinLogged,
                                             Line("Problem detected", pod.Name, "nil"))
                        /\ twinPc' = AfterItem(i + 1)
                   ELSE IF ThresholdReached(twinTimes[pod.Name])
                        THEN /\ twinLogged' = Append(twinLogged,
                                             Line("Restarting pod", pod.Name, "nil"))
                             /\ twinPc' = "remediate"
                             /\ UNCHANGED twinTimes
                        ELSE /\ twinPc' = AfterItem(i + 1)
                             /\ UNCHANGED <<twinTimes, twinLogged>>
              ELSE /\ twinTimes' = ClearRecovered(twinTimes, pod.Name)
                   /\ twinPc' = AfterItem(i + 1)
                   /\ UNCHANGED twinLogged

\* both builds take the next item of the listing
PairItem == ProcessPod /\ TwinProcessPod

\* checkPods of the other build: its remediation call returns e; log, then
\* delete the record
TwinRemediateReturn(e) ==
    /\ twinPc = "remediate"
    /\ twinLogged' = Append(twinLogged,
                        Line(IF e = "nil" THEN "remediation OK" ELSE "remediation error",
                             pods[i].Name, e))
    /\ twinTimes' = ClearRemediated(twinTimes, pods[i].Name, e)
    /\ twinPc' = AfterItem(i)
    /\ UNCHANGED <<variant, pendingTimeout, checkInterval, clock, pc, pods, i,
                   now, should, reason, podProblemTimes, logged, prevTimes,
                   tracked, since, lastCall, timing, config, agreed, missed>>

\* the history of the keys, the other build stepping in the same action
ObservePair == ObserveKeys /\ UNCHANGED <<lastCall, timing, config, missed>>

NextPair ==
    \/ PairTick /\ ObservePair
    \/ PairListFail /\ ObservePair
    \/ pc = "list" /\ (\E l \in Listings : PairListOK(l)) /\ ObservePair
    \/ PairItem /\ ObservePair
    \/ pc = "remediate" /\ (\E e \in RemediationErrors : RemediateReturn(e))
          /\ Observe
    \/ twinPc = "remediate" /\ (\E e \in TwinErrors : TwinRemediateReturn(e))

SpecPair == InitPair /\ [][NextPair]_vars

----------------------------------------------------------------------------
(* The inspector on its inputs: one pod p1 whose snapshot each listing draws *)
(* from every phase and every list of up to MaxContainers container states,  *)
(* with PENDING_TIMEOUT=1; cycles as in main, and between cycles the         *)
(* inspector may be called again on the snapshot it was last given.          *)

WaitingReasons ==
    {"ContainerCreating", "ErrImagePull", "ImagePullBackOff",
     "CrashLoopBackOff", "CreateContainerConfigError", "PodInitializing"}

ContainerStates ==
    { Waiting(r) : r \in WaitingReasons }
    \cup { Running(s, rd) : s \in {0, Minute}, rd \in BOOLEAN }
    \cup { Terminated }

RECURSIVE ListsOfLength(_)
ListsOfLength(n) ==
    IF n = 0 THEN {<<>>}
    ELSE { Append(l, c) : l \in ListsOfLength(n - 1), c \in ContainerStates }

ContainerLists == UNION { ListsOfLength(n) : n \in 0..MaxContainers }

InspectPods == { Pod("p1", ph, 0, css) : ph \in Phases, css \in ContainerLists }

InitInspect ==
    /\ Init
    /\ pendingTimeout = getPendingTimeout(<<"1">>)
    /\ checkInterval = getCheckInterval(<<>>)

\* a later call of the inspector (line 130) on the snapshot of the last call
InspectAgain ==
    /\ pc = "idle"
    /\ i = 1
    /\ clock + checkInterval <= StartOffset + (InspectCycles - 1) * checkInterval
    /\ clock' = clock + checkInterval
    /\ LET res == Inspect(pods[i], pendingTimeout, clock')
       IN  should' = res[1] /\ reason' = res[2]
    /\ UNCHANGED <<variant, pendingTimeout, checkInterval, pc, pods, i, now,
                   podProblemTimes, logged, prevTimes, tracked>>

NextInspect ==
    \/ TickWithin(InspectCycles) /\ Observe
    \/ pc = "list" /\ (\E p \in InspectPods : ListOK(<<p>>)) /\ Observe
    \/ ProcessPod /\ Observe
    \/ pc = "remediate" /\ (\E e \in RemediationErrors : RemediateReturn(e))
          /\ Observe
    \/ InspectAgain /\ Observe

SpecInspect == InitInspect /\ [][NextInspect]_vars

----------------------------------------------------------------------------
(* Vocabulary of the claims *)

\* the remediation calls this cycle issued for the name e (line 136 is
\* logged right before the call of line 147)
CallsIssued(e) ==
    Cardinality({ j \in 1..Len(logged) :
                    logged[j].msg = "Restarting pod" /\ logged[j].pod = e })

\* the remediation call for e has been issued and has not returned
InFlight(e) == pc = "remediate" /\ pods[i].Name = e

\* the List call of this cycle failed
ListFailed == \E j \in 1..Len(logged) : logged[j].msg = "list pods error"

\* item k of the listing has been classified, and classified stuck
ClassifiedStuck(k) == k <= i /\ Inspect(pods[k], pendingTimeout, clock)[1]

\* the cycle is over: checkPods returned and main waits for the tick
CycleOver == pc = "idle"

----------------------------------------------------------------------------
(* C1: for a record of E with first-seen time T0, a cycle issues no         *)
(* remediation call for E while now - T0 < timeout, and exactly one in the  *)
(* cycle that lists E, classifies it stuck and has now - T0 >= timeout;     *)
(* when that call has returned the record is gone, a record that stays      *)
(* keeps its T0, and a new record carries the now of its own cycle, so no   *)
(* second call is made for the same T0.                                     *)
C1_OneRemediationPerEpisode ==
    \A e \in Names :
        LET due == \E k \in 1..i :
                      /\ pods[k].Name = e
                      /\ ClassifiedStuck(k)
                      /\ e \in DOMAIN prevTimes
                      /\ now - prevTimes[e] >= pendingTimeout
        IN  /\ CallsIssued(e) = IF due THEN 1 ELSE 0
            /\ CallsIssued(e) > 0 /\ ~InFlight(e) => e \notin DOMAIN podProblemTimes
            /\ e \in DOMAIN podProblemTimes =>
                  IF e \in DOMAIN prevTimes
                  THEN podProblemTimes[e] = prevTimes[e] /\ prevTimes[e] < clock
                  ELSE podProblemTimes[e] = now /\ now = clock

\* a cycle ended in which the one call for a record that reached the timeout
\* was issued, after a cycle that had kept the record
C1_Witness ==
    /\ CycleOver
    /\ \E e \in Names :
          /\ CallsIssued(e) = 1
          /\ e \in DOMAIN prevTimes
          /\ now - prevTimes[e] >= pendingTimeout
          /\ prevTimes[e] + checkInterval < now
          /\ e \notin DOMAIN podProblemTimes

(* C2: once the remediation call for E has returned, with nil or with an    *)
(* error (a deadline error included), podProblemTimes has no entry for E.   *)
C2_RecordGoneAfterRemediation ==
    \A j \in 1..Len(logged) :
        logged[j].msg \in {"remediation OK", "remediation error"}
            => logged[j].pod \notin DOMAIN podProblemTimes

\* a remediation call failed on the deadline and the record is gone
C2_Witness ==
    \E j \in 1..Len(logged) :
        /\ logged[j].msg = "remediation error"
        /\ logged[j].err = "deadline exceeded"
        /\ logged[j].pod \in DOMAIN prevTimes
        /\ logged[j].pod \notin DOMAIN podProblemTimes

(* C3, as stated: at the end of every cycle (its listing succeeded, failed, *)
(* or no longer holds the entity), E has an entry if and only if E was      *)
(* classified stuck in that cycle and now - firstSeen(E) < timeout.         *)
C3_AsStated ==
    CycleOver =>
        \A e \in Names :
            e \in DOMAIN podProblemTimes
                <=> /\ \E k \in 1..Len(pods) : pods[k].Name = e /\ ClassifiedStuck(k)
                    /\ e \in DOMAIN podProblemTimes
                    /\ clock - podProblemTimes[e] < pendingTimeout

(* C3, amended: at the end of a cycle whose listing succeeded, every E that *)
(* listing returned has an entry if and only if E was classified stuck in   *)
(* that cycle and either had no entry when the cycle began or has           *)
(* now - firstSeen(E) < timeout, and the entry then has that age; a cycle   *)
(* whose listing failed, or did not return E, leaves E's entry, or the      *)
(* absence of one, as it was when the cycle began.                          *)
C3_EntryIffStuckWithinTimeout ==
    CycleOver =>
        /\ ~ListFailed =>
              \A k \in 1..Len(pods) :
                  LET e == pods[k].Name
                  IN  /\ e \in DOMAIN podProblemTimes
                           <=> /\ ClassifiedStuck(k)
                               /\ \/ e \notin DOMAIN prevTimes
                                  \/ now - prevTimes[e] < pendingTimeout
                      /\ e \in DOMAIN podProblemTimes
                           => now - podProblemTimes[e] < pendingTimeout
        /\ \A e \in Names :
              (ListFailed \/ \A k \in 1..Len(pods) : pods[k].Name # e) =>
                  /\ e \in DOMAIN podProblemTimes <=> e \in DOMAIN prevTimes
                  /\ e \in DOMAIN podProblemTimes
                       => podProblemTimes[e] = prevTimes[e]

\* a cycle ended that kept the record of one pod, still within the timeout,
\* and left another listed pod without one
C3_Witness ==
    /\ CycleOver /\ ~ListFailed /\ Len(pods) = 2
    /\ \E k \in 1..2 :
          /\ pods[k].Name \in DOMAIN prevTimes
          /\ pods[k].Name \in DOMAIN podProblemTimes
          /\ ClassifiedStuck(k)
          /\ pods[3 - k].Name \notin DOMAIN podProblemTimes

C5_ListFailureKeepsRecords ==
    ListFailed =>
        /\ podProblemTimes = prevTimes
        /\ \A e \in Names : CallsIssued(e) = 0
        /\ Len(logged) = 1
        /\ pods = <<>>
        /\ pc = "idle"

\* a listing failed in a cycle that found a record
C5_Witness == ListFailed /\ DOMAIN prevTimes # {} /\ clock > now

(* C6: a listed entity classified not stuck has no record from the moment  *)
(* it is processed, in that same cycle, and no remediation call is issued   *)
(* for it in that cycle.                                                    *)
C6_RecoveryClearsInSameCycle ==
    \A k \in 1..i :
        ~ClassifiedStuck(k) =>
            /\ pods[k].Name \notin DOMAIN podProblemTimes
            /\ CallsIssued(pods[k].Name) = 0

\* an entity with a record younger than the timeout was listed, classified
\* not stuck, and has lost the record in that cycle
C6_Witness ==
    \E k \in 1..i :
        /\ ~ClassifiedStuck(k)
        /\ pods[k].Name \in DOMAIN prevTimes
        /\ now - prevTimes[pods[k].Name] < pendingTimeout
        /\ pods[k].Name \notin DOMAIN podProblemTimes

(* C7: in Scenario A exactly one remediation call for p1 is issued in the  *)
(* first cycle after p1's age exceeds the timeout (t = 5m10s), and at the   *)
(* end of the next cycle p1 has no record.                                  *)
C7_ScenarioA ==
    CycleOver =>
        LET age == clock - ScenarioPod.CreationTimestamp
        IN  /\ age > pendingTimeout /\ age - checkInterval <= pendingTimeout
                => CallsIssued("p1") = 1
            /\ age - checkInterval > pendingTimeout
               /\ age - 2 * checkInterval <= pendingTimeout
                => "p1" \notin DOMAIN podProblemTimes

(* C11: when a remediation call is issued for E and an earlier call for E  *)
(* has returned, with nil or with an error, the key of E was put in the map *)
(* by a cycle strictly later than the earlier call, and the present cycle   *)
(* is at least the timeout later than that cycle.                           *)
C11_RetryAfterFullWindow ==
    \A e \in Names :
        InFlight(e) /\ e \in DOMAIN lastCall =>
            /\ e \in DOMAIN since
            /\ lastCall[e].at < since[e]
            /\ now - since[e] >= pendingTimeout

\* a call for E is in flight after an earlier call for E failed
C11_Witness ==
    \E e \in Names :
        /\ InFlight(e)
        /\ e \in DOMAIN lastCall
        /\ lastCall[e].err # "nil"
        /\ lastCall[e].at + pendingTimeout < now

\* the time at which the cycle in progress (or the last one) made its ctx
CycleStart == ctxDeadline - CycleTimeout

(* C12: at any time at most one invocation of checkPods has not returned,   *)
(* main waits on the ticker exactly when none is in progress, and the ticks *)
(* that fire while a cycle runs longer than the interval wait in t.C (at    *)
(* most one, the others are dropped) and start no cycle beside it.          *)
C12_CyclesNeverOverlap ==
    /\ active \in {0, 1}
    /\ active = 0 <=> pc = "idle"
    /\ ticks \in {0, 1}
    /\ pc # "idle" => CycleStart <= clock /\ clock <= ctxDeadline

\* a cycle has run longer than two intervals: two ticks fired since it
\* began, one waits in t.C and the other was dropped
C12_Witness ==
    /\ pc # "idle"
    /\ active = 1
    /\ ticks = 1
    /\ CycleStart < nextTick - 2 * checkInterval
    /\ clock - CycleStart > checkInterval

(* C13: every cycle terminates and main comes back to wait on the ticker,  *)
(* whatever List and the remediation calls returned, and when main waits on *)
(* the ticker a further cycle is started.                                   *)
C13_LoopNeverStops ==
    /\ (pc # "idle") ~> (pc = "idle")
    /\ (pc = "idle") ~> (pc = "list")

\* a cycle ranges over its listing after a remediation call failed on the
\* deadline, in a cycle that is over
C13_Witness ==
    /\ pc = "range"
    /\ \E e \in DOMAIN lastCall :
          lastCall[e].err = "deadline exceeded" /\ lastCall[e].at < now

\* the string s is an integer n > 0 for strconv.Atoi
ParsesPositive(s) ==
    LET a == Atoi64(s) IN ~a.err /\ ~a.neg /\ ~IsZero(a.mag)

\* the duration d is strictly positive
Positive(d) == ~Negative(d) /\ ~IsZero(d)

(* C14: for every value of PENDING_TIMEOUT, pendingTimeout is n minutes     *)
(* when the value is an integer n > 0 and 5 minutes otherwise; for every    *)
(* value of CHECK_INTERVAL, checkInterval is n seconds when the value is an *)
(* integer n > 0 and 30 seconds otherwise; both are strictly positive.      *)
C14_ConfigAsStated ==
    /\ config.pendingTimeout # <<>> =>
          LET s == config.PENDING_TIMEOUT[1]
              d == config.pendingTimeout[1]
          IN  /\ Positive(d)
              /\ IF ParsesPositive(s)
                 THEN Widen(d) = TimesMinute(Atoi64(s).mag)
                 ELSE d = TimesMinute(Int64(5))
    /\ config.checkInterval # <<>> =>
          LET s == config.CHECK_INTERVAL[1]
              d == config.checkInterval[1]
          IN  /\ Positive(d)
              /\ IF ParsesPositive(s)
                 THEN Widen(d) = TimesSecond(Atoi64(s).mag)
                 ELSE d = TimesSecond(Int64(30))

\* the places in the log of this cycle of the lines msg about the name e
LinesOf(msg, e) ==
    { j \in 1..Len(logged) : logged[j].msg \in msg /\ logged[j].pod = e }

(* C15: a remediation call for E is issued only for a key that an earlier   *)
(* cycle put in the map and that has been there since, never in the cycle   *)
(* that starts tracking E; the record is there as long as the call has not  *)
(* returned and is deleted once it has.                                     *)
C15_EventsOrdered ==
    \A e \in Names :
        CallsIssued(e) > 0 =>
            /\ e \in DOMAIN prevTimes
            /\ LinesOf({"Problem detected"}, e) = {}
            /\ IF InFlight(e)
               THEN /\ e \in DOMAIN podProblemTimes
                    /\ e \in DOMAIN since
                    /\ since[e] < now
                    /\ LinesOf({"remediation OK", "remediation error"}, e) = {}
               ELSE /\ e \notin DOMAIN podProblemTimes
                    /\ \E j \in LinesOf({"Restarting pod"}, e) :
                          LinesOf({"remediation OK", "remediation error"}, e) = {j + 1}

\* a cycle has started tracking one pod, and the call it issued for another,
\* tracked since an earlier cycle, has returned
C15_Witness ==
    \E e, f \in Names :
        /\ CallsIssued(e) = 1
        /\ ~InFlight(e)
        /\ LinesOf({"Problem detected"}, f) # {}
        /\ f \in DOMAIN podProblemTimes

\* the step is the return of the remediation call in flight with the error e
CallReturned(e) ==
    /\ pc = "remediate"
    /\ pc' # "remediate"
    /\ logged'[Len(logged')].err = e

(* C16: List and every remediation call of a cycle run under the one        *)
(* deadline made 20 s after the cycle began.  List answers before it;       *)
(* notifyAPI returns nil only when its 200 ms have passed no later than the *)
(* deadline, and the deadline error when the deadline comes first; a call   *)
(* that failed on the deadline is logged, the entity is not called again in *)
(* that cycle, and the entities after it are processed.                     *)
C16_OneDeadlinePerCycle ==
    [][ /\ pc # "idle" => ctxDeadline' = ctxDeadline
        /\ pc = "idle" /\ pc' # "idle" => ctxDeadline' = clock + CycleTimeout
        /\ pc = "list" /\ pc' \in {"range", "remediate"} => clock < ctxDeadline
        /\ CallReturned("nil") /\ variant = "notify" =>
              /\ clock = callStart + NotifyDelay
              /\ clock <= ctxDeadline
        /\ CallReturned("nil") /\ variant = "restart" => clock < ctxDeadline
        /\ CallReturned("deadline exceeded") =>
              /\ clock >= ctxDeadline
              /\ variant = "notify" => callStart + NotifyDelay >= ctxDeadline
              /\ logged'[Len(logged')] =
                    Line("remediation error", pods[i].Name, "deadline exceeded")
        /\ \A e \in Names : CallsIssued(e)' <= 1
        /\ pc # "idle" /\ pc' = "idle" /\ ~ListFailed' => i' = Len(pods')
      ]_vars

\* after the call for the first entity failed on the deadline, the second
\* entity of the listing has been processed and called for, once each
C16_Witness ==
    /\ variant = "notify"
    /\ CycleOver
    /\ Len(pods) = 2
    /\ i = 2
    /\ \A k \in 1..2 :
          /\ CallsIssued(pods[k].Name) = 1
          /\ \E j \in LinesOf({"remediation error"}, pods[k].Name) :
                logged[j].err = "deadline exceeded"
    /\ callStart >= ctxDeadline

\* the List call of this cycle returned a listing
ListSucceeded == pc # "list" /\ ~ListFailed

\* the listing of this cycle holds e, and the inspector classifies it stuck
ListedStuck(e) ==
    \E k \in 1..Len(pods) :
        pods[k].Name = e /\ Inspect(pods[k], pendingTimeout, clock)[1]

(* C17: when from some cycle on every listing that succeeds holds E         *)
(* classified stuck, and List succeeds again and again, a remediation call  *)
(* for E is issued again and again; a call for E is issued at least one     *)
(* timeout after the call for E before it.                                  *)
C17_StuckIsRemediated ==
    \A e \in Names :
        /\ (<>[](ListSucceeded => ListedStuck(e)) /\ []<>ListSucceeded)
              => []<>InFlight(e)
        /\ [](InFlight(e) /\ e \in DOMAIN lastCall
                => now - lastCall[e].at >= pendingTimeout)

\* a second call for p1 is in flight, p1 listed stuck, after the first call
\* for it failed
C17_Witness ==
    /\ InFlight("p1")
    /\ ListedStuck("p1")
    /\ "p1" \in DOMAIN lastCall
    /\ lastCall["p1"].err # "nil"

\* the identities a log shows remediation calls for, in the order of the calls
RECURSIVE Issued(_)
Issued(log) ==
    IF log = <<>> THEN <<>>
    ELSE IF log[1].msg = "Restarting pod"
         THEN <<log[1].pod>> \o Issued(Tail(log))
         ELSE Issued(Tail(log))

(* C18: the two builds, given the same listings and the same now and as     *)
(* long as their inspectors gave the same answers, are at the same place of *)
(* the loop when neither waits for its remediation call, hold the same      *)
(* podProblemTimes whenever they are at the same place, and have issued     *)
(* remediation calls for the same identities in the cycle, whatever the     *)
(* calls returned.                                                          *)
C18_VariantAgnostic ==
    agreed =>
        /\ pc # "remediate" /\ twinPc # "remediate" => pc = twinPc
        /\ pc = twinPc => twinTimes = podProblemTimes
        /\ Issued(twinLogged) = Issued(logged)

\* the cycle is over in both builds, the call for p1 succeeded in one and
\* failed in the other, and both hold the same record for p2
C18_Witness ==
    /\ agreed
    /\ pc = "idle"
    /\ twinPc = "idle"
    /\ Issued(logged) = <<"p1">>
    /\ LinesOf({"remediation OK"}, "p1") # {}
    /\ \E j \in 1..Len(twinLogged) :
          twinLogged[j] = Line("remediation error", "p1", "deadline exceeded")
    /\ DOMAIN podProblemTimes = {"p2"}
    /\ twinTimes = podProblemTimes

\* the listing of this cycle holds e
Listed(e) == \E k \in 1..Len(pods) : pods[k].Name = e

(* C19: a cycle whose listing succeeded without E leaves no record of E,    *)
(* and a remediation call is issued for E only when every successful        *)
(* listing since the record's first-seen time held E.                       *)
C19_ContinuousEpisode ==
    \A e \in Names :
        /\ CycleOver /\ ListSucceeded /\ ~Listed(e) => e \notin DOMAIN podProblemTimes
        /\ InFlight(e) => e \notin missed

----------------------------------------------------------------------------
(* The classifier the claims describe, over a pod's containers *)

WatchedReasons ==
    {"ContainerCreating", "ErrImagePull", "ImagePullBackOff",
     "CrashLoopBackOff", "CreateContainerConfigError"}

\* (a) Waiting with a watched reason and the entity older than the timeout
MatchesWaiting(pod, j, timeout, t) ==
    /\ pod.ContainerStatuses[j].Waiting # <<>>
    /\ pod.ContainerStatuses[j].Waiting[1] \in WatchedReasons
    /\ t - pod.CreationTimestamp > timeout

\* (b) Running, not ready, started longer ago than the timeout
MatchesRunning(pod, j, timeout, t) ==
    /\ pod.ContainerStatuses[j].Running # <<>>
    /\ ~pod.ContainerStatuses[j].Ready
    /\ t - pod.ContainerStatuses[j].Running[1] > timeout

ReferenceClassifier(pod, timeout, t) ==
    LET m == { j \in 1..Len(pod.ContainerStatuses) :
                 MatchesWaiting(pod, j, timeout, t) \/ MatchesRunning(pod, j, timeout, t) }
    IN  IF m = {} THEN <<FALSE, "">>
        ELSE LET first == CHOOSE j \in m : \A k \in m : j <= k
             IN  IF MatchesWaiting(pod, first, timeout, t)
                 THEN <<TRUE, pod.ContainerStatuses[first].Waiting[1]>>
                 ELSE <<TRUE, "RunningNotReady">>

\* every container of the pod is Waiting with a reason that is not watched
OnlyUnwatchedWaiting(pod) ==
    /\ pod.ContainerStatuses # <<>>
    /\ \A j \in 1..Len(pod.ContainerStatuses) :
          /\ pod.ContainerStatuses[j].Waiting # <<>>
          /\ pod.ContainerStatuses[j].Waiting[1] \notin WatchedReasons

\* the pod's age and the running time of each of its containers are on the
\* same side of the timeout at the times t1 and t2
AgesSameSide(pod, timeout, t1, t2) ==
    /\ (t1 - pod.CreationTimestamp > timeout) <=> (t2 - pod.CreationTimestamp > timeout)
    /\ \A j \in 1..Len(pod.ContainerStatuses) :
          pod.ContainerStatuses[j].Running # <<>> =>
              ((t1 - pod.ContainerStatuses[j].Running[1] > timeout)
                  <=> (t2 - pod.ContainerStatuses[j].Running[1] > timeout))

(* C8: shouldRestartPod returns (false, "") for an entity whose phase is    *)
(* Succeeded, Failed or Unknown, whatever its containers and ages; the      *)
(* cycle that observes it starts no timer and issues no remediation call    *)
(* for it, and leaves it without a record.                                  *)
C8_TerminalPhaseNeverStuck ==
    (i >= 1 /\ variant = "restart"
        /\ pods[i].Phase \in {"Succeeded", "Failed", "Unknown"}) =>
        /\ should = FALSE
        /\ reason = ""
        /\ pods[i].Name \notin DOMAIN podProblemTimes
        /\ CallsIssued(pods[i].Name) = 0
        /\ \A j \in 1..Len(logged) : logged[j].pod # pods[i].Name

\* an entity that had a record is observed in a terminal phase with a
\* container that alone would make it stuck, and has lost the record
C8_Witness ==
    /\ i >= 1 /\ variant = "restart"
    /\ pods[i].Phase \in {"Succeeded", "Failed", "Unknown"}
    /\ ReferenceClassifier(pods[i], pendingTimeout, clock)[1]
    /\ pods[i].Name \in DOMAIN prevTimes
    /\ pods[i].Name \notin DOMAIN podProblemTimes

(* C9: for a Pending or Running entity shouldRestartPod returns what the    *)
(* first-match classifier returns: the first container that is Waiting with *)
(* a watched reason while the entity is older than the timeout, or Running, *)
(* not ready and started longer ago than the timeout, decides, else not     *)
(* stuck.  A reason that is not watched is never the reason of a stuck      *)
(* result, and an entity all of whose containers wait with such a reason    *)
(* is not stuck and has no record.                                          *)
C9_FirstMatchClassifier ==
    (i >= 1 /\ variant = "restart" /\ pods[i].Phase \in {"Pending", "Running"}) =>
        /\ <<should, reason>> = ReferenceClassifier(pods[i], pendingTimeout, clock)
        /\ should => reason \in WatchedReasons \cup {"RunningNotReady"}
        /\ OnlyUnwatchedWaiting(pods[i]) =>
              ~should /\ pods[i].Name \notin DOMAIN podProblemTimes

\* two containers match with different reasons and the first one decided
C9_Witness ==
    /\ i >= 1 /\ variant = "restart" /\ pods[i].Phase \in {"Pending", "Running"}
    /\ Len(pods[i].ContainerStatuses) = 2
    /\ MatchesRunning(pods[i], 1, pendingTimeout, clock)
    /\ MatchesWaiting(pods[i], 2, pendingTimeout, clock)
    /\ should /\ reason = "RunningNotReady"

(* C10, as stated: two calls of the inspector with the identical snapshot   *)
(* and the identical timeout return the identical (stuck, reason),          *)
(* whenever the two calls are made.                                         *)
C10_AsStated ==
    [][ (pc = "idle" /\ pc' = "idle" /\ i = 1 /\ pods' = pods
            /\ pendingTimeout' = pendingTimeout)
        => (should' = should /\ reason' = reason) ]_vars

(* C10, amended: the inspector reads the clock.  Two calls with the         *)
(* identical snapshot and timeout return the identical (stuck, reason) when *)
(* they are made at times at which the entity's age and each container's    *)
(* running time are on the same side of the timeout, whatever happened to   *)
(* podProblemTimes in between.                                              *)
C10_SameResultAtSameAges ==
    [][ (pc = "idle" /\ pc' = "idle" /\ i = 1 /\ pods' = pods
            /\ pendingTimeout' = pendingTimeout
            /\ AgesSameSide(pods[i], pendingTimeout, clock, clock'))
        => (should' = should /\ reason' = reason) ]_vars

\* the inspector was called in a cycle and again later, the ages on the same
\* side of the timeout both times; the first call had started a timer
C10_Witness ==
    /\ pc = "idle" /\ i = 1
    /\ clock > now
    /\ AgesSameSide(pods[i], pendingTimeout, now, clock)
    /\ should
    /\ pods[i].Name \in DOMAIN podProblemTimes
    /\ pods[i].Name \notin DOMAIN prevTimes

====
